---- MODULE Spec2Model ----
(***************************************************************************)
(* Local matrix formulation of the coupling elements of                    *)
(* ross/coupling_element.py: CouplingElement (4 DOF per node, 8x8) and     *)
(* CouplingElement6DoF (6 DOF per node, 12x12).                            *)
(*                                                                         *)
(* Numbers are integers.  Polar inertias are drawn from even integers so   *)
(* that the default Id = Ip / 2 of the constructor is exact.  A matrix is  *)
(* a tuple of rows; At(A, i, j) reads it with the 0-based indices of the   *)
(* source.  An optional value (None in the source) is the empty tuple,     *)
(* a present one the 1-tuple <<v>>.                                        *)
(***************************************************************************)
EXTENDS Integers, Sequences, FiniteSets, TLC

VARIABLES cls, args, self, heap, ret, seen, calls

vars == <<cls, args, self, heap, ret, seen, calls>>

(***************************************************************************)
(* Bounds and program constants.                                           *)
(***************************************************************************)
\* number of matrix calls one run makes
MaxCalls == 2

\* DOFs per node and local dimension of the two variants
Dof4 == 4
Dof6 == 6
Dim4 == 8
Dim6 == 12

None == <<>>
Some(v) == <<v>>

Classes == {"CouplingElement", "CouplingElement6DoF"}

(***************************************************************************)
(* Matrix helpers (numpy).                                                 *)
(***************************************************************************)
\* np.zeros((n, n))
Zeros(n) == [i \in 1..n |-> [j \in 1..n |-> 0]]

\* A[r0:r0+len(B), c0:c0+len(B)] = B   (0-based offsets)
SetBlock(A, r0, c0, B) ==
  [i \in 1..Len(A) |->
     [j \in 1..Len(A[i]) |->
        IF /\ i - r0 \in 1..Len(B)
           /\ j - c0 \in 1..Len(B[1])
        THEN B[i - r0][j - c0]
        ELSE A[i][j]]]

\* A[i, j] with the 0-based indices of the source
At(A, i, j) == A[i + 1][j + 1]

\* A.T
Transpose(A) == [j \in 1..Len(A[1]) |-> [i \in 1..Len(A) |-> A[i][j]]]

\* -A
Negate(A) == [i \in 1..Len(A) |-> [j \in 1..Len(A[i]) |-> -A[i][j]]]

\* A.fill(v): the caller overwrites an array it was handed
Fill(A, v) == [i \in 1..Len(A) |-> [j \in 1..Len(A[i]) |-> v]]

\* truthiness of a number: `x if x else y`
Truthy(x) == x # 0

\* float(x) of a number: the same number
Float(x) == x

\* Ip / 2 (true division; exact on the even inputs used here)
Half(x) == x \div 2

(***************************************************************************)
(* Construction.                                                           *)
(***************************************************************************)
\* slip: `if n:` instead of `if n is not None:`, so n = 0 counts as absent
RightNode_Truthy(n) ==
  IF n # None /\ Truthy(n[1]) THEN Some(n[1] + 1) ELSE None

\* n_r: None, or n + 1 when n is given
RightNode(n) == IF n # None THEN Some(n[1] + 1) ELSE None

\* slip: the default is the polar inertia itself, not half of it
ResolveId_NoHalf(Id, Ip) == IF Truthy(Id) THEN Float(Id) ELSE Ip

\* Id = float(Id) if Id else Ip / 2
ResolveId(Id, Ip) == IF Truthy(Id) THEN Float(Id) ELSE Half(Ip)

\* CouplingElement.__init__
CouplingElement_init(a) ==
  LET Id_l == ResolveId(a.Id_l, a.Ip_l)
      Id_r == ResolveId(a.Id_r, a.Ip_r)
  IN [n |-> a.n, n_l |-> a.n, n_r |-> RightNode(a.n),
      m_l |-> Float(a.m_l), m_r |-> Float(a.m_r), m |-> Float(a.m_l) + Float(a.m_r),
      Ip_l |-> Float(a.Ip_l), Ip_r |-> Float(a.Ip_r),
      Id_l |-> Id_l, Id_r |-> Id_r,
      kt_x |-> Float(a.kt_x), kt_y |-> Float(a.kt_y),
      kr_x |-> Float(a.kr_x), kr_y |-> Float(a.kr_y),
      ct_x |-> Float(a.ct_x), ct_y |-> Float(a.ct_y),
      cr_x |-> Float(a.cr_x), cr_y |-> Float(a.cr_y),
      L |-> a.L, tag |-> a.tag, color |-> a.color,
      dof_global_index |-> None,
      beam_cg |-> "1e20", slenderness_ratio |-> "1e30",
      Im |-> Id_l + Id_r]

\* CouplingElement6DoF.__init__
CouplingElement6DoF_init(a) ==
  LET Id_l == ResolveId(a.Id_l, a.Ip_l)
      Id_r == ResolveId(a.Id_r, a.Ip_r)
  IN [n |-> a.n, n_l |-> a.n, n_r |-> RightNode(a.n),
      m_l |-> Float(a.m_l), m_r |-> Float(a.m_r), m |-> Float(a.m_l) + Float(a.m_r),
      Ip_l |-> Float(a.Ip_l), Ip_r |-> Float(a.Ip_r),
      Id_l |-> Id_l, Id_r |-> Id_r,
      kt_x |-> Float(a.kt_x), kt_y |-> Float(a.kt_y), kt_z |-> Float(a.kt_z),
      kr_x |-> Float(a.kr_x), kr_y |-> Float(a.kr_y), kr_z |-> Float(a.kr_z),
      ct_x |-> Float(a.ct_x), ct_y |-> Float(a.ct_y), ct_z |-> Float(a.ct_z),
      cr_x |-> Float(a.cr_x), cr_y |-> Float(a.cr_y), cr_z |-> Float(a.cr_z),
      L |-> a.L, tag |-> a.tag, color |-> a.color,
      dof_global_index |-> None,
      o_d |-> "150e-3", beam_cg |-> "1e20", slenderness_ratio |-> "1e30",
      Im |-> Id_l + Id_r]

Construct(c, a) ==
  IF c = "CouplingElement" THEN CouplingElement_init(a)
  ELSE CouplingElement6DoF_init(a)

(***************************************************************************)
(* CouplingElement: the 8x8 matrices.                                      *)
(***************************************************************************)
\* slip: the right block is written into the upper right corner
CouplingElement_M_CrossBlock(e) ==
  LET ml == e.m_l
      Idl == e.Id_l
      Ml == << << ml,   0,   0,   0>>,
            <<  0,  ml,   0,   0>>,
            <<  0,   0, Idl,   0>>,
            <<  0,   0,   0, Idl>> >>
      mr == e.m_r
      Idr == e.Id_r
      Mr == << << mr,   0,   0,   0>>,
            <<  0,  mr,   0,   0>>,
            <<  0,   0, Idr,   0>>,
            <<  0,   0,   0, Idr>> >>
  IN SetBlock(SetBlock(Zeros(Dim4), 0, 0, Ml), 0, Dof4, Mr)

\* slip: the right block is built from the left station's diametral inertia
CouplingElement_M_LeftId(e) ==
  LET ml == e.m_l
      Idl == e.Id_l
      Ml == << << ml,   0,   0,   0>>,
            <<  0,  ml,   0,   0>>,
            <<  0,   0, Idl,   0>>,
            <<  0,   0,   0, Idl>> >>
      mr == e.m_r
      Idr == e.Id_l
      Mr == << << mr,   0,   0,   0>>,
            <<  0,  mr,   0,   0>>,
            <<  0,   0, Idr,   0>>,
            <<  0,   0,   0, Idr>> >>
  IN SetBlock(SetBlock(Zeros(Dim4), 0, 0, Ml), Dof4, Dof4, Mr)

\* CouplingElement.M
CouplingElement_M(e) ==
  LET ml == e.m_l
      Idl == e.Id_l
      Ml == << << ml,   0,   0,   0>>,
            <<  0,  ml,   0,   0>>,
            <<  0,   0, Idl,   0>>,
            <<  0,   0,   0, Idl>> >>
      mr == e.m_r
      Idr == e.Id_r
      Mr == << << mr,   0,   0,   0>>,
            <<  0,  mr,   0,   0>>,
            <<  0,   0, Idr,   0>>,
            <<  0,   0,   0, Idr>> >>
  IN SetBlock(SetBlock(Zeros(Dim4), 0, 0, Ml), Dof4, Dof4, Mr)

\* slip: k3 and k4 read each other's attribute
CouplingElement_K_Swapped(e) ==
  LET
      k1 == e.kt_x
      k2 == e.kt_y
      k3 == e.kr_y
      k4 == e.kr_x
  IN << << k1,   0,   0,   0, -k1,   0,   0,   0>>,
        <<  0,  k2,   0,   0,   0, -k2,   0,   0>>,
        <<  0,   0,  k3,   0,   0,   0, -k3,   0>>,
        <<  0,   0,   0,  k4,   0,   0,   0, -k4>>,
        <<-k1,   0,   0,   0,  k1,   0,   0,   0>>,
        <<  0, -k2,   0,   0,   0,  k2,   0,   0>>,
        <<  0,   0, -k3,   0,   0,   0,  k3,   0>>,
        <<  0,   0,   0, -k4,   0,   0,   0,  k4>> >>

\* CouplingElement.K
CouplingElement_K(e) ==
  LET
      k1 == e.kt_x
      k2 == e.kt_y
      k3 == e.kr_x
      k4 == e.kr_y
  IN << << k1,   0,   0,   0, -k1,   0,   0,   0>>,
        <<  0,  k2,   0,   0,   0, -k2,   0,   0>>,
        <<  0,   0,  k3,   0,   0,   0, -k3,   0>>,
        <<  0,   0,   0,  k4,   0,   0,   0, -k4>>,
        <<-k1,   0,   0,   0,  k1,   0,   0,   0>>,
        <<  0, -k2,   0,   0,   0,  k2,   0,   0>>,
        <<  0,   0, -k3,   0,   0,   0,  k3,   0>>,
        <<  0,   0,   0, -k4,   0,   0,   0,  k4>> >>

\* slip: the sign of the lower left entry of channel 1 is lost
CouplingElement_C_SignSlip(e) ==
  LET
      c1 == e.ct_x
      c2 == e.ct_y
      c3 == e.cr_x
      c4 == e.cr_y
  IN << << c1,   0,   0,   0, -c1,   0,   0,   0>>,
        <<  0,  c2,   0,   0,   0, -c2,   0,   0>>,
        <<  0,   0,  c3,   0,   0,   0, -c3,   0>>,
        <<  0,   0,   0,  c4,   0,   0,   0, -c4>>,
        << c1,   0,   0,   0,  c1,   0,   0,   0>>,
        <<  0, -c2,   0,   0,   0,  c2,   0,   0>>,
        <<  0,   0, -c3,   0,   0,   0,  c3,   0>>,
        <<  0,   0,   0, -c4,   0,   0,   0,  c4>> >>

\* slip: the cross entries of channel 3 are written with c4
CouplingElement_C_WrongChannel(e) ==
  LET
      c1 == e.ct_x
      c2 == e.ct_y
      c3 == e.cr_x
      c4 == e.cr_y
  IN << << c1,   0,   0,   0, -c1,   0,   0,   0>>,
        <<  0,  c2,   0,   0,   0, -c2,   0,   0>>,
        <<  0,   0,  c3,   0,   0,   0, -c4,   0>>,
        <<  0,   0,   0,  c4,   0,   0,   0, -c4>>,
        <<-c1,   0,   0,   0,  c1,   0,   0,   0>>,
        <<  0, -c2,   0,   0,   0,  c2,   0,   0>>,
        <<  0,   0, -c4,   0,   0,   0,  c3,   0>>,
        <<  0,   0,   0, -c4,   0,   0,   0,  c4>> >>

\* slip: the rotational channels read the stiffness attributes
CouplingElement_C_ReadsStiffness(e) ==
  LET
      c1 == e.ct_x
      c2 == e.ct_y
      c3 == e.kr_x
      c4 == e.kr_y
  IN << << c1,   0,   0,   0, -c1,   0,   0,   0>>,
        <<  0,  c2,   0,   0,   0, -c2,   0,   0>>,
        <<  0,   0,  c3,   0,   0,   0, -c3,   0>>,
        <<  0,   0,   0,  c4,   0,   0,   0, -c4>>,
        <<-c1,   0,   0,   0,  c1,   0,   0,   0>>,
        <<  0, -c2,   0,   0,   0,  c2,   0,   0>>,
        <<  0,   0, -c3,   0,   0,   0,  c3,   0>>,
        <<  0,   0,   0, -c4,   0,   0,   0,  c4>> >>

\* CouplingElement.C
CouplingElement_C(e) ==
  LET
      c1 == e.ct_x
      c2 == e.ct_y
      c3 == e.cr_x
      c4 == e.cr_y
  IN << << c1,   0,   0,   0, -c1,   0,   0,   0>>,
        <<  0,  c2,   0,   0,   0, -c2,   0,   0>>,
        <<  0,   0,  c3,   0,   0,   0, -c3,   0>>,
        <<  0,   0,   0,  c4,   0,   0,   0, -c4>>,
        <<-c1,   0,   0,   0,  c1,   0,   0,   0>>,
        <<  0, -c2,   0,   0,   0,  c2,   0,   0>>,
        <<  0,   0, -c3,   0,   0,   0,  c3,   0>>,
        <<  0,   0,   0, -c4,   0,   0,   0,  c4>> >>

\* slip: the right block is built from the left station's polar inertia
CouplingElement_G_LeftIp(e) ==
  LET Ipl == e.Ip_l
      Gl == << <<   0,    0,    0,    0>>,
            <<   0,    0,    0,    0>>,
            <<   0,    0,    0,  Ipl>>,
            <<   0,    0, -Ipl,    0>> >>
      Ipr == e.Ip_l
      Gr == << <<   0,    0,    0,    0>>,
            <<   0,    0,    0,    0>>,
            <<   0,    0,    0,  Ipr>>,
            <<   0,    0, -Ipr,    0>> >>
  IN SetBlock(SetBlock(Zeros(Dim4), 0, 0, Gl), Dof4, Dof4, Gr)

\* CouplingElement.G
CouplingElement_G(e) ==
  LET Ipl == e.Ip_l
      Gl == << <<   0,    0,    0,    0>>,
            <<   0,    0,    0,    0>>,
            <<   0,    0,    0,  Ipl>>,
            <<   0,    0, -Ipl,    0>> >>
      Ipr == e.Ip_r
      Gr == << <<   0,    0,    0,    0>>,
            <<   0,    0,    0,    0>>,
            <<   0,    0,    0,  Ipr>>,
            <<   0,    0, -Ipr,    0>> >>
  IN SetBlock(SetBlock(Zeros(Dim4), 0, 0, Gl), Dof4, Dof4, Gr)

(***************************************************************************)
(* CouplingElement6DoF: the 12x12 matrices.                                *)
(***************************************************************************)
\* CouplingElement6DoF.M
CouplingElement6DoF_M(e) ==
  LET ml == e.m_l
      Idl == e.Id_l
      Ipl == e.Ip_l
      Ml == << << ml,   0,   0,   0,   0,   0>>,
            <<  0,  ml,   0,   0,   0,   0>>,
            <<  0,   0,  ml,   0,   0,   0>>,
            <<  0,   0,   0, Idl,   0,   0>>,
            <<  0,   0,   0,   0, Idl,   0>>,
            <<  0,   0,   0,   0,   0, Ipl>> >>
      mr == e.m_r
      Idr == e.Id_r
      Ipr == e.Ip_r
      Mr == << << mr,   0,   0,   0,   0,   0>>,
            <<  0,  mr,   0,   0,   0,   0>>,
            <<  0,   0,  mr,   0,   0,   0>>,
            <<  0,   0,   0, Idr,   0,   0>>,
            <<  0,   0,   0,   0, Idr,   0>>,
            <<  0,   0,   0,   0,   0, Ipr>> >>
  IN SetBlock(SetBlock(Zeros(Dim6), 0, 0, Ml), Dof6, Dof6, Mr)

\* CouplingElement6DoF.K
CouplingElement6DoF_K(e) ==
  LET
      k1 == e.kt_x
      k2 == e.kt_y
      k3 == e.kt_z
      k4 == e.kr_x
      k5 == e.kr_y
      k6 == e.kr_z
  IN << << k1,   0,   0,   0,   0,   0, -k1,   0,   0,   0,   0,   0>>,
        <<  0,  k2,   0,   0,   0,   0,   0, -k2,   0,   0,   0,   0>>,
        <<  0,   0,  k3,   0,   0,   0,   0,   0, -k3,   0,   0,   0>>,
        <<  0,   0,   0,  k4,   0,   0,   0,   0,   0, -k4,   0,   0>>,
        <<  0,   0,   0,   0,  k5,   0,   0,   0,   0,   0, -k5,   0>>,
        <<  0,   0,   0,   0,   0,  k6,   0,   0,   0,   0,   0, -k6>>,
        <<-k1,   0,   0,   0,   0,   0,  k1,   0,   0,   0,   0,   0>>,
        <<  0, -k2,   0,   0,   0,   0,   0,  k2,   0,   0,   0,   0>>,
        <<  0,   0, -k3,   0,   0,   0,   0,   0,  k3,   0,   0,   0>>,
        <<  0,   0,   0, -k4,   0,   0,   0,   0,   0,  k4,   0,   0>>,
        <<  0,   0,   0,   0, -k5,   0,   0,   0,   0,   0,  k5,   0>>,
        <<  0,   0,   0,   0,   0, -k6,   0,   0,   0,   0,   0,  k6>> >>

\* CouplingElement6DoF.C
CouplingElement6DoF_C(e) ==
  LET
      c1 == e.ct_x
      c2 == e.ct_y
      c3 == e.ct_z
      c4 == e.cr_x
      c5 == e.cr_y
      c6 == e.cr_z
  IN << << c1,   0,   0,   0,   0,   0, -c1,   0,   0,   0,   0,   0>>,
        <<  0,  c2,   0,   0,   0,   0,   0, -c2,   0,   0,   0,   0>>,
        <<  0,   0,  c3,   0,   0,   0,   0,   0, -c3,   0,   0,   0>>,
        <<  0,   0,   0,  c4,   0,   0,   0,   0,   0, -c4,   0,   0>>,
        <<  0,   0,   0,   0,  c5,   0,   0,   0,   0,   0, -c5,   0>>,
        <<  0,   0,   0,   0,   0,  c6,   0,   0,   0,   0,   0, -c6>>,
        <<-c1,   0,   0,   0,   0,   0,  c1,   0,   0,   0,   0,   0>>,
        <<  0, -c2,   0,   0,   0,   0,   0,  c2,   0,   0,   0,   0>>,
        <<  0,   0, -c3,   0,   0,   0,   0,   0,  c3,   0,   0,   0>>,
        <<  0,   0,   0, -c4,   0,   0,   0,   0,   0,  c4,   0,   0>>,
        <<  0,   0,   0,   0, -c5,   0,   0,   0,   0,   0,  c5,   0>>,
        <<  0,   0,   0,   0,   0, -c6,   0,   0,   0,   0,   0,  c6>> >>

\* slip: the gyroscopic pair sits on (rot_y, rot_z) instead of (rot_x, rot_y)
CouplingElement6DoF_G_Shifted(e) ==
  LET Ipl == e.Ip_l
      Gl == << <<   0,    0,    0,    0,    0,    0>>,
            <<   0,    0,    0,    0,    0,    0>>,
            <<   0,    0,    0,    0,    0,    0>>,
            <<   0,    0,    0,    0,    0,    0>>,
            <<   0,    0,    0,    0,    0,  Ipl>>,
            <<   0,    0,    0,    0, -Ipl,    0>> >>
      Ipr == e.Ip_r
      Gr == << <<   0,    0,    0,    0,    0,    0>>,
            <<   0,    0,    0,    0,    0,    0>>,
            <<   0,    0,    0,    0,    0,    0>>,
            <<   0,    0,    0,    0,    0,    0>>,
            <<   0,    0,    0,    0,    0,  Ipr>>,
            <<   0,    0,    0,    0, -Ipr,    0>> >>
  IN SetBlock(SetBlock(Zeros(Dim6), 0, 0, Gl), Dof6, Dof6, Gr)

\* CouplingElement6DoF.G
CouplingElement6DoF_G(e) ==
  LET Ipl == e.Ip_l
      Gl == << <<   0,    0,    0,    0,    0,    0>>,
            <<   0,    0,    0,    0,    0,    0>>,
            <<   0,    0,    0,    0,    0,    0>>,
            <<   0,    0,    0,    0,  Ipl,    0>>,
            <<   0,    0,    0, -Ipl,    0,    0>>,
            <<   0,    0,    0,    0,    0,    0>> >>
      Ipr == e.Ip_r
      Gr == << <<   0,    0,    0,    0,    0,    0>>,
            <<   0,    0,    0,    0,    0,    0>>,
            <<   0,    0,    0,    0,    0,    0>>,
            <<   0,    0,    0,    0,  Ipr,    0>>,
            <<   0,    0,    0, -Ipr,    0,    0>>,
            <<   0,    0,    0,    0,    0,    0>> >>
  IN SetBlock(SetBlock(Zeros(Dim6), 0, 0, Gl), Dof6, Dof6, Gr)

\* slip: the stiffening matrix is not overridden with zeros
CouplingElement6DoF_Kst_NotZero(e) == CouplingElement6DoF_K(e)

\* CouplingElement6DoF.Kst
CouplingElement6DoF_Kst(e) == Zeros(Dim6)

(***************************************************************************)
(* Method dispatch on the element's class.                                 *)
(***************************************************************************)
Dof(c) == IF c = "CouplingElement" THEN Dof4 ELSE Dof6
Dim(c) == IF c = "CouplingElement" THEN Dim4 ELSE Dim6

M(c, e) == IF c = "CouplingElement" THEN CouplingElement_M(e)
           ELSE CouplingElement6DoF_M(e)
K(c, e) == IF c = "CouplingElement" THEN CouplingElement_K(e)
           ELSE CouplingElement6DoF_K(e)
C(c, e) == IF c = "CouplingElement" THEN CouplingElement_C(e)
           ELSE CouplingElement6DoF_C(e)
G(c, e) == IF c = "CouplingElement" THEN CouplingElement_G(e)
           ELSE CouplingElement6DoF_G(e)

(***************************************************************************)
(* Constructor inputs.                                                     *)
(***************************************************************************)
MassVals == {1, 3}
IpVals   == {2, 4}
\* 0 is the default of the signature: Id_l / Id_r not supplied
IdVals   == {0, 3}
PoisonVals == {99}

Inertias ==
  [m_l : MassVals, m_r : MassVals, Ip_l : IpVals, Ip_r : IpVals,
   Id_l : IdVals, Id_r : IdVals]

\* m_l = m_r = 1.0, Ip_l = Ip_r = 2.0, Id defaulted
UnitInertia ==
  [m_l |-> 1, m_r |-> 1, Ip_l |-> 2, Ip_r |-> 2, Id_l |-> 0, Id_r |-> 0]

Stiff4 == [kt_x : {0, 5}, kt_y : {0, 7}, kr_x : {0, 13}, kr_y : {0, -17}]
Damp4  == [ct_x : {0, 2}, ct_y : {0, 3}, cr_x : {0, 6}, cr_y : {0, -8}]
Stiff6 == [kt_x : {0, 5}, kt_y : {0, 7}, kt_z : {0, 11},
           kr_x : {0, 13}, kr_y : {0, -17}, kr_z : {0, 19}]
Damp6  == [ct_x : {0, 2}, ct_y : {0, 3}, ct_z : {0, 4},
           cr_x : {0, 6}, cr_y : {0, -8}, cr_z : {0, 9}]

Stiffs(c) == IF c = "CouplingElement" THEN Stiff4 ELSE Stiff6
Damps(c)  == IF c = "CouplingElement" THEN Damp4 ELSE Damp6

\* the channels of a coefficient record that are switched on
NonZero(r) == {f \in DOMAIN r : r[f] # 0}

\* at most one channel on, or at most one channel off
Sparse(r) ==
  \/ Cardinality(NonZero(r)) <= 1
  \/ Cardinality(NonZero(r)) >= Cardinality(DOMAIN r) - 1

AllZero(S) == CHOOSE r \in S : NonZero(r) = {}

\* L, n, tag, color
Rest(n) == [L |-> None, n |-> n, tag |-> None, color |-> "#add8e6"]

NodeVals == {None, Some(0), Some(3)}

\* inertias vary, no stiffness or damping
InertiaArgs(c) ==
  {i @@ AllZero(Stiffs(c)) @@ AllZero(Damps(c)) @@ Rest(None) : i \in Inertias}

\* stiffness and damping vary
CoefArgs(c) ==
  {UnitInertia @@ k @@ d @@ Rest(None) :
     k \in {r \in Stiffs(c) : Sparse(r)}, d \in {r \in Damps(c) : Sparse(r)}}

\* the element number varies
NodeArgs(c) ==
  {UnitInertia @@ AllZero(Stiffs(c)) @@ AllZero(Damps(c)) @@ Rest(n) :
     n \in NodeVals}

Args(c) == InertiaArgs(c) \cup CoefArgs(c) \cup NodeArgs(c)

(***************************************************************************)
(* State machine: an element after construction, a caller that asks for    *)
(* its matrices and may overwrite the arrays it was handed.                *)
(*   cls, args  the class and the constructor arguments                    *)
(*   self       the element's attributes                                   *)
(*   heap       the arrays handed out so far                               *)
(*   ret        the last call: operation, array reference, value returned  *)
(*   seen       per operation, the value its first call returned           *)
(*   calls      the number of calls made                                   *)
(***************************************************************************)
Ops == {"M", "K", "C", "G", "Kst"}

NoCall == [op |-> "none", ref |-> 0, val |-> <<>>]

Init ==
  /\ cls \in Classes
  /\ args \in Args(cls)
  /\ self = Construct(cls, args)
  /\ heap = <<>>
  /\ ret = NoCall
  /\ seen = [o \in Ops |-> <<>>]
  /\ calls = 0

\* slip: a call hands out the array of the call before it
Alloc_Reuse(h, A) == IF h = <<>> THEN <<A>> ELSE h

\* np.zeros / np.array: a new array holding A
Alloc(h, A) == Append(h, A)

\* the method `op` returns the matrix A
Return(op, A) ==
  /\ calls < MaxCalls
  /\ calls' = calls + 1
  /\ heap' = Alloc(heap, A)
  /\ ret' = [op |-> op, ref |-> Len(heap'), val |-> heap'[Len(heap')]]
  /\ seen' = IF seen[op] = <<>> THEN [seen EXCEPT ![op] = <<ret'.val>>]
             ELSE seen
  /\ UNCHANGED <<cls, args, self>>

CallM == Return("M", M(cls, self))

CallK == Return("K", K(cls, self))

CallC == Return("C", C(cls, self))

CallG == Return("G", G(cls, self))

CallKst ==
  /\ cls = "CouplingElement6DoF"
  /\ Return("Kst", CouplingElement6DoF_Kst(self))

\* the caller overwrites an array it holds
Mutate ==
  \E r \in 1..Len(heap), v \in PoisonVals :
    /\ heap[r] # Fill(heap[r], v)
    /\ heap' = [heap EXCEPT ![r] = Fill(@, v)]
    /\ UNCHANGED <<cls, args, self, ret, seen, calls>>

Next == CallM \/ CallK \/ CallC \/ CallG \/ CallKst \/ Mutate

Spec == Init /\ [][Next]_vars

(***************************************************************************)
(* Properties.  Indices are the 0-based indices of the source; d is the    *)
(* number of DOFs per node, station 0 is the left node, station 1 the      *)
(* right one.                                                              *)
(***************************************************************************)
Idx(c) == 0..(Dim(c) - 1)
Station(c, i) == i \div Dof(c)
Local(c, i) == i % Dof(c)

\* local DOF order: (x, y, rot_x, rot_y) and (x, y, z, rot_x, rot_y, rot_z)
RotX(c) == IF c = "CouplingElement" THEN 2 ELSE 3
RotY(c) == RotX(c) + 1

StiffChannels(c) ==
  IF c = "CouplingElement" THEN <<"kt_x", "kt_y", "kr_x", "kr_y">>
  ELSE <<"kt_x", "kt_y", "kt_z", "kr_x", "kr_y", "kr_z">>
DampChannels(c) ==
  IF c = "CouplingElement" THEN <<"ct_x", "ct_y", "cr_x", "cr_y">>
  ELSE <<"ct_x", "ct_y", "ct_z", "cr_x", "cr_y", "cr_z">>

\* the positions of a matrix that hold a non-zero entry
Support(A) ==
  {p \in (0..(Len(A) - 1)) \X (0..(Len(A) - 1)) : At(A, p[1], p[2]) # 0}

\* the polar inertia given for a station
IpOf(a, st) == IF st = 0 THEN a.Ip_l ELSE a.Ip_r
MassOf(a, st) == IF st = 0 THEN a.m_l ELSE a.m_r
IdOf(e, st) == IF st = 0 THEN e.Id_l ELSE e.Id_r

\* station blocks with entry (hi, lo) = +Ip and entry (lo, hi) = -Ip
GyroPattern(c, a, hi, lo) ==
  LET f(i, j) ==
        IF Station(c, i) # Station(c, j) THEN 0
        ELSE IF Local(c, i) = hi /\ Local(c, j) = lo THEN IpOf(a, Station(c, i))
        ELSE IF Local(c, i) = lo /\ Local(c, j) = hi THEN -IpOf(a, Station(c, i))
        ELSE 0
  IN [i \in 1..Dim(c) |-> [j \in 1..Dim(c) |-> f(i - 1, j - 1)]]

\* C1 as stated: G() has, in each station's diagonal block, entry
\* (rot_y, rot_x) = +Ip and entry (rot_x, rot_y) = -Ip of that station's
\* polar inertia, and every other entry zero.
C1_Stated ==
  ret.op = "G" => ret.val = GyroPattern(cls, args, RotY(cls), RotX(cls))

\* C1 as the code has it: G() has, in each station's diagonal block, entry
\* (rot_x, rot_y) = +Ip and entry (rot_y, rot_x) = -Ip of that station's
\* polar inertia, and every other entry zero (4-DOF: G[2,3] = +Ip_l,
\* G[3,2] = -Ip_l, G[6,7] = +Ip_r, G[7,6] = -Ip_r).
C1_Gyroscopic ==
  ret.op = "G" => ret.val = GyroPattern(cls, args, RotX(cls), RotY(cls))

C1_Witness ==
  /\ cls = "CouplingElement"
  /\ ret.op = "G"
  /\ args.Ip_l = 2 /\ args.Ip_r = 4
  /\ At(ret.val, 2, 3) = 2 /\ At(ret.val, 3, 2) = -2
  /\ At(ret.val, 6, 7) = 4 /\ At(ret.val, 7, 6) = -4
  /\ Cardinality(Support(ret.val)) = 4

\* the direct sum of the per-channel patterns [[k, -k], [-k, k]]
SpringPattern(c, ch, a) ==
  LET d == Dof(c)
      f(i, j) ==
        IF i = j THEN a[ch[Local(c, i) + 1]]
        ELSE IF i = j + d \/ j = i + d THEN -a[ch[Local(c, i) + 1]]
        ELSE 0
  IN [i \in 1..Dim(c) |-> [j \in 1..Dim(c) |-> f(i - 1, j - 1)]]

\* C2: K() is the direct sum of the per-channel spring patterns:
\* K[i,i] = K[i+d,i+d] = k_i, K[i,i+d] = K[i+d,i] = -k_i for channel i at
\* local DOF i, and every other entry is zero.
C2_Stiffness ==
  ret.op = "K" => ret.val = SpringPattern(cls, StiffChannels(cls), args)

\* kt_x = 5, all else zero, 4-DOF: exactly four non-zero entries
C2_Witness ==
  /\ cls = "CouplingElement"
  /\ ret.op = "K"
  /\ args.kt_x = 5 /\ args.kt_y = 0 /\ args.kr_x = 0 /\ args.kr_y = 0
  /\ Support(ret.val) = {<<0, 0>>, <<0, 4>>, <<4, 0>>, <<4, 4>>}
  /\ At(ret.val, 0, 0) = 5 /\ At(ret.val, 0, 4) = -5
  /\ At(ret.val, 4, 0) = -5 /\ At(ret.val, 4, 4) = 5

\* the diagonal of M claimed for one local DOF of a station
MassDiag(c, a, e, i) ==
  LET st == Station(c, i)
      l == Local(c, i)
  IN IF c = "CouplingElement"
     THEN (IF l \in {0, 1} THEN MassOf(a, st) ELSE IdOf(e, st))
     ELSE (IF l \in {0, 1, 2} THEN MassOf(a, st)
           ELSE IF l \in {3, 4} THEN IdOf(e, st)
           ELSE IpOf(a, st))

\* C3: M() is diagonal, with per station m on each translational DOF, Id on
\* rot_x and rot_y and (6-DOF) Ip on rot_z.
C3_Mass ==
  ret.op = "M" =>
    \A i \in Idx(cls), j \in Idx(cls) :
      At(ret.val, i, j) = IF i = j THEN MassDiag(cls, args, self, i) ELSE 0

\* m_l = m_r = 1, Ip_l = Ip_r = 2, Id defaulted: an all-ones 4-DOF diagonal
C3_Witness ==
  /\ cls = "CouplingElement"
  /\ ret.op = "M"
  /\ args.m_l = 1 /\ args.m_r = 1 /\ args.Ip_l = 2 /\ args.Ip_r = 2
  /\ args.Id_l = 0 /\ args.Id_r = 0
  /\ \A i \in 0..7 : At(ret.val, i, i) = 1

\* C4: M(), K() and C() equal their own transpose; G() equals the negative
\* of its own transpose.
C4_Symmetry ==
  /\ ret.op \in {"M", "K", "C"} => ret.val = Transpose(ret.val)
  /\ ret.op = "G" => ret.val = Negate(Transpose(ret.val))
  /\ ret.op = "G" => \A i \in Idx(cls) : At(ret.val, i, i) = 0

\* a stiffness matrix with cross-station entries, then a gyroscopic matrix
C4_Witness ==
  /\ seen["K"] # <<>>
  /\ At(seen["K"][1], 0, Dof(cls)) # 0
  /\ ret.op = "G"
  /\ At(ret.val, RotX(cls), RotY(cls)) # 0

\* C5: without Id_l / Id_r (or with zero) Id = Ip / 2, a supplied non-zero
\* Id is stored unchanged, per station, from construction on; M() and Im
\* use the resolved values.
C5_DefaultId ==
  /\ args.Id_l = 0 => 2 * self.Id_l = args.Ip_l
  /\ args.Id_r = 0 => 2 * self.Id_r = args.Ip_r
  /\ args.Id_l # 0 => self.Id_l = args.Id_l
  /\ args.Id_r # 0 => self.Id_r = args.Id_r
  /\ self.Im = self.Id_l + self.Id_r
  /\ ret.op = "M" =>
       \A st \in {0, 1}, l \in {RotX(cls), RotY(cls)} :
         At(ret.val, st * Dof(cls) + l, st * Dof(cls) + l) = IdOf(self, st)

\* left Id defaulted, right Id supplied, and M() called
C5_Witness ==
  /\ args.Id_l = 0 /\ args.Id_r = 3 /\ args.Ip_l = 4
  /\ self.Id_l = 2 /\ self.Id_r = 3 /\ self.Im = 5
  /\ ret.op = "M"
  /\ At(ret.val, RotX(cls), RotX(cls)) = 2
  /\ At(ret.val, Dof(cls) + RotX(cls), Dof(cls) + RotX(cls)) = 3

\* A0 is A with the four positions of channel i, (i,i), (i,i+d), (i+d,i),
\* (i+d,i+d), zero and all else as in A
ZeroedChannel(c, A, A0, i) ==
  LET d == Dof(c)
      n == Dim(c)
  IN A0 = [r \in 1..n |-> [q \in 1..n |->
             IF (r - 1) % d = i /\ (q - 1) % d = i THEN 0 ELSE A[r][q]]]

\* C6: setting one stiffness (damping) coefficient to zero, all other
\* parameters held fixed, gives zero in exactly the four positions of that
\* channel of K() (C()) and leaves every other entry unchanged.
C6_ChannelIndependence ==
  /\ ret.op = "K" =>
       \A i \in 0..(Dof(cls) - 1) :
         LET a0 == [args EXCEPT ![StiffChannels(cls)[i + 1]] = 0]
         IN ZeroedChannel(cls, ret.val, K(cls, Construct(cls, a0)), i)
  /\ ret.op = "C" =>
       \A i \in 0..(Dof(cls) - 1) :
         LET a0 == [args EXCEPT ![DampChannels(cls)[i + 1]] = 0]
         IN ZeroedChannel(cls, ret.val, C(cls, Construct(cls, a0)), i)

\* every stiffness and damping channel switched on, K() then C() returned
C6_Witness ==
  /\ NonZero([f \in DOMAIN AllZero(Stiffs(cls)) |-> args[f]])
       = DOMAIN AllZero(Stiffs(cls))
  /\ NonZero([f \in DOMAIN AllZero(Damps(cls)) |-> args[f]])
       = DOMAIN AllZero(Damps(cls))
  /\ seen["K"] # <<>>
  /\ Cardinality(Support(seen["K"][1])) = 4 * Dof(cls)
  /\ ret.op = "C"
  /\ Cardinality(Support(ret.val)) = 4 * Dof(cls)

\* C7: M() and G() are zero wherever the row belongs to one station and the
\* column to the other.
C7_NoCrossStation ==
  ret.op \in {"M", "G"} =>
    \A i \in Idx(cls), j \in Idx(cls) :
      Station(cls, i) # Station(cls, j) => At(ret.val, i, j) = 0

\* M() with all its diagonal set, then G() with its four entries set
C7_Witness ==
  /\ seen["M"] # <<>>
  /\ Cardinality(Support(seen["M"][1])) = Dim(cls)
  /\ ret.op = "G"
  /\ Cardinality(Support(ret.val)) = 4

\* constructor arguments of an element without mass or inertia whose
\* stiffness coefficients are the damping coefficients of a
DampingAsStiffness(c, a) ==
  LET ks == StiffChannels(c)
      cs == DampChannels(c)
      at(f) == CHOOSE i \in 1..Len(ks) : ks[i] = f
  IN  [m_l |-> 0, m_r |-> 0, Ip_l |-> 0, Ip_r |-> 0, Id_l |-> 0, Id_r |-> 0]
      @@ [f \in {ks[i] : i \in 1..Len(ks)} |-> a[cs[at(f)]]]
      @@ AllZero(Damps(c)) @@ Rest(None)

\* C8: C() equals K() of an element whose stiffness coefficients are this
\* element's damping coefficients (kt_* -> ct_*, kr_* -> cr_*), whatever
\* the stiffness, mass and inertia parameters are.
C8_DampingLikeStiffness ==
  ret.op = "C" =>
    ret.val = K(cls, Construct(cls, DampingAsStiffness(cls, args)))

\* damping and stiffness both switched on in every channel, C() returned
C8_Witness ==
  /\ \A i \in 1..Dof(cls) :
       /\ args[DampChannels(cls)[i]] # 0
       /\ args[StiffChannels(cls)[i]] # 0
       /\ args[StiffChannels(cls)[i]] # args[DampChannels(cls)[i]]
  /\ args.m_l # 0 /\ args.Ip_l # 0
  /\ ret.op = "C"
  /\ At(ret.val, 0, 0) = args.ct_x
  /\ At(ret.val, 0, Dof(cls)) = -args.ct_x

\* C9: calls in any order leave every attribute as constructed, each
\* operation returns what its first call returned, and each call hands out
\* a new array, so overwriting a returned array changes no later result.
C9_PureCalls ==
  /\ self = Construct(cls, args)
  /\ Len(heap) = calls
  /\ ret.op # "none" =>
       /\ ret.ref = calls
       /\ seen[ret.op] # <<>>
       /\ ret.val = seen[ret.op][1]

\* the same operation called twice, the first array overwritten in between
C9_Witness ==
  /\ calls = 2
  /\ ret.op = "K"
  /\ \A o \in Ops \ {"K"} : seen[o] = <<>>
  /\ Support(ret.val) # {}
  /\ \E v \in PoisonVals : heap[1] = Fill(heap[1], v)
  /\ heap[2] = ret.val

\* C10: every matrix of the 4-DOF variant is 8x8, every matrix of the 6-DOF
\* variant is 12x12, and Kst() is all zero.
C10_Dimensions ==
  ret.op # "none" =>
    LET n == IF cls = "CouplingElement" THEN 8 ELSE 12
    IN /\ Len(ret.val) = n
       /\ \A i \in 1..n : Len(ret.val[i]) = n
       /\ ret.op = "Kst" =>
            /\ cls = "CouplingElement6DoF"
            /\ \A i \in 1..n, j \in 1..n : ret.val[i][j] = 0

\* Kst() of an element with mass, inertia and stiffness
C10_Witness ==
  /\ ret.op = "Kst"
  /\ args.kt_x # 0 /\ args.kr_z # 0 /\ args.ct_z # 0
  /\ args.m_l # 0 /\ args.Ip_l # 0
  /\ Len(ret.val) = 12
  /\ Support(ret.val) = {}

\* C11: with n given, n_l = n and n_r = n + 1 (also for n = 0); without n,
\* n, n_l and n_r are all None; no matrix operation changes them.
C11_NodeIndices ==
  /\ self.n = args.n
  /\ self.n_l = args.n
  /\ args.n # None => self.n_r = Some(args.n[1] + 1)
  /\ args.n # None => self.n_r[1] = self.n_l[1] + 1
  /\ args.n = None => self.n_r = None

\* an element built with n = 0, after two matrix calls
C11_Witness ==
  /\ args.n = Some(0)
  /\ self.n_l = Some(0) /\ self.n_r = Some(1)
  /\ calls = 2
  /\ ret.op = "G"
  /\ seen["M"] # <<>>

\* the 6-DOF indices of x, y, rot_x, rot_y of both stations, and of z, rot_z
Bending == <<0, 1, 3, 4, 6, 7, 9, 10>>
AxialTorsional == {2, 5, 8, 11}

\* A restricted to the rows and columns idx
Restrict(A, idx) ==
  [i \in 1..Len(idx) |-> [j \in 1..Len(idx) |-> At(A, idx[i], idx[j])]]

\* the constructor arguments the two variants share
SharedArgs(a) ==
  [f \in DOMAIN a \ {"kt_z", "kr_z", "ct_z", "cr_z"} |-> a[f]]

\* the matrix `op` of the 4-DOF element built from the arguments a
FourDofMatrix(op, a) ==
  LET e == CouplingElement_init(a)
  IN CASE op = "M" -> CouplingElement_M(e)
       [] op = "K" -> CouplingElement_K(e)
       [] op = "C" -> CouplingElement_C(e)
       [] op = "G" -> CouplingElement_G(e)

\* C12: each of M(), K(), C(), G() of the 6-DOF element, restricted to the
\* rows and columns 0,1,3,4,6,7,9,10, is the matrix of the 4-DOF element
\* built from the shared parameters, and rows and columns 2,5,8,11 hold no
\* non-zero entry against a bending DOF.
C12_VariantsAgree ==
  (cls = "CouplingElement6DoF" /\ ret.op \in {"M", "K", "C", "G"}) =>
    /\ Restrict(ret.val, Bending) = FourDofMatrix(ret.op, SharedArgs(args))
    /\ \A i \in AxialTorsional, k \in 1..Len(Bending) :
         /\ At(ret.val, i, Bending[k]) = 0
         /\ At(ret.val, Bending[k], i) = 0

\* a 6-DOF element with every stiffness channel on: G() then K()
C12_Witness ==
  /\ cls = "CouplingElement6DoF"
  /\ \A i \in 1..6 : args[StiffChannels(cls)[i]] # 0
  /\ seen["G"] # <<>>
  /\ Cardinality(Support(seen["G"][1])) = 4
  /\ ret.op = "K"
  /\ At(ret.val, 2, 8) # 0 /\ At(ret.val, 5, 11) # 0
  /\ Cardinality(Support(Restrict(ret.val, Bending))) = 16

====
